---------------------------- MODULE Spec2Model ----------------------------
(***************************************************************************)
(* Model of the audio engine src/src/services/SoundManager.ts              *)
(* (class SoundManager): asset loading and caching, the pool of audio      *)
(* elements, play / stop / pause / resume, the music and sfx channels,     *)
(* background / foreground transitions and dispose.                        *)
(*                                                                         *)
(* The manager's fields are the variables below.  Every method is an       *)
(* operator from a "world" record (all the fields at once) to the world    *)
(* after the call, so that a method calling another method (play calls     *)
(* stop, dispose calls stop, loadSound calls ensureInitialized) is         *)
(* operator application.  Each action applies one handler to the current   *)
(* world.                                                                  *)
(*                                                                         *)
(* Platform assumptions (the browser, not this repository):                *)
(*   - HTMLAudioElement: play() clears `paused`, pause() sets it, reaching *)
(*     the end of a non-looping element sets `paused` and fires `ended`,   *)
(*     assigning `src` rewinds the element;                                *)
(*   - createMediaElementSource / createGain / createStereoPanner succeed; *)
(*   - `new AudioContext()` may throw (init catches it);                   *)
(*   - volumes are numbers in hundredths (100 is 1.0); NaN is a number.    *)
(***************************************************************************)
EXTENDS Integers, Sequences, FiniteSets, Bags, TLC

(***************************************************************************)
(* Bounds of the model and inputs of the operations.                       *)
(***************************************************************************)
MaxInits == 5          \* times the body of init() runs in one behaviour
MaxTasks == 2          \* loads / preload entries in flight at once
MaxTimers == 2         \* pending fade-out cleanup timers
MaxListeners == 2      \* callbacks registered for one event
MaxCycles == 2         \* init() bodies where initialization is not the subject
MaxRegs == 3           \* entries in the log of registrations of one event
MaxBurst == 21         \* loads in flight at once where the pool is the subject

maxPoolSize == 20      \* SoundManager.maxPoolSize
InitialPool == 5       \* elements pre-created by init()

NoId == "none"         \* null / undefined where an id or a url is expected
NoVal == -1            \* an option left undefined
NaN == -2              \* the number NaN

SoundIds == {"m1", "m2", "s1"}
Urls == {"u1", "u2"}

\* What the callers register: the id's channel and the URLs it is tried with
\* (primary first, then alternateFormats).
IsMusicOf(id) == id \in {"m1", "m2"}
UrlsOf(id) == IF id = "m1" THEN <<"u1", "u2">> ELSE IF id = "m2" THEN <<"u2">> ELSE <<"u1">>

VolumeInputs == {-50, 50, 150, NaN}
EventNames == {"load", "error"}
Handlers == {"h1", "h2"}
Throwing == {"h2"}     \* the callbacks that throw when they are called
Removers == {"h3"}     \* the callbacks that call off() on themselves when called
AllHandlers == Handlers \cup Removers
FadeInputs == {NoVal, 0, 1}
OptVolumes == {NoVal, 50}

VARIABLES
  isInitialized,   \* SoundManager.isInitialized
  audioContext,    \* "none" (null) or "open"
  sounds,          \* registry: id -> Sound (reg is FALSE for an id the Map does not hold)
  soundsCache,     \* the URLs whose bytes are cached
  musicVolume, sfxVolume, isMusicMuted, isSfxMuted,
  currentMusic,    \* a reference to a Sound object, or NoRef
  audioPool,       \* sequence of audio element numbers
  els,             \* the audio elements ever created: number -> element state
  visListeners,    \* visibilitychange listeners added to the document
  hidden,          \* document.hidden
  timers,          \* bag of pending setTimeout cleanups (references to Sounds)
  tasks,           \* bag of the loads in flight
  eventListeners,  \* event name -> sequence of the callbacks registered with on()
  events,          \* events passed to triggerEvent by the last step, in order
  hist,            \* the last public calls, as far as the properties need them
  bg,              \* what held when the app was last backgrounded
  disposed,        \* "yes" from dispose() to the next successful init(), then "again"
  atMute,          \* per channel, the sounds whose audio was running when it was muted
  invoked,         \* for each entry of events, the callbacks it invoked, in order
  regLog,          \* per event, the on() calls made and the off() calls that hit
  escaped,         \* an exception left triggerEvent during the last step
  watch            \* which of the histories above the specification records

vars == <<isInitialized, audioContext, sounds, soundsCache, musicVolume, sfxVolume,
          isMusicMuted, isSfxMuted, currentMusic, audioPool, els, visListeners,
          hidden, timers, tasks, eventListeners, events, hist, bg, disposed, atMute,
          invoked, regLog, escaped, watch>>

(***************************************************************************)
(* References to Sound objects.  currentMusic, a timer's closure and an    *)
(* element's onended closure hold the Sound OBJECT, not its id.  dispose   *)
(* and a second registration of an id replace the registry's object; a     *)
(* reference to the replaced object is no longer `live`: what is done      *)
(* through it reaches its audio element but not the registry.              *)
(***************************************************************************)
NoRef == [id |-> NoId, audio |-> 0, live |-> FALSE]
Ref(w, id) == [id |-> id, audio |-> w.sounds[id].audio, live |-> TRUE]
Detach(r, id) == IF r.id = id /\ r.live THEN [r EXCEPT !.live = FALSE] ELSE r

NoNode == [on |-> FALSE, value |-> 0, ramps |-> {}]
NoHandler == [ref |-> NoRef, loop |-> FALSE]

World == [isInitialized |-> isInitialized, audioContext |-> audioContext,
          sounds |-> sounds, soundsCache |-> soundsCache,
          musicVolume |-> musicVolume, sfxVolume |-> sfxVolume,
          isMusicMuted |-> isMusicMuted, isSfxMuted |-> isSfxMuted,
          currentMusic |-> currentMusic, audioPool |-> audioPool, els |-> els,
          visListeners |-> visListeners, timers |-> timers,
          eventListeners |-> eventListeners, events |-> <<>>, invoked |-> <<>>,
          regLog |-> regLog, thrown |-> FALSE, watch |-> watch]

(***************************************************************************)
(* HTMLAudioElement.                                                       *)
(***************************************************************************)
NewAudio == [paused |-> TRUE, src |-> NoId, currentTime |-> 0, loop |-> FALSE,
             onended |-> NoHandler]
AudioPlay(w, a) == [w EXCEPT !.els[a].paused = FALSE, !.els[a].currentTime = 1]
AudioPause(w, a) == [w EXCEPT !.els[a].paused = TRUE]

\* triggerEvent(event, data): the event and the id (or channel) it carries.
Listeners(w, name) ==
  IF name \in DOMAIN w.eventListeners THEN w.eventListeners[name] ELSE <<>>

Lowest(S) == CHOOSE i \in S : \A j \in S : i <= j

\* on(event, callback) / off(event, callback).
\* on putting the callback in front of the array.
onFront(w, e, cb) == [w EXCEPT !.eventListeners[e] = <<cb>> \o @]
on(w, e, cb) == [w EXCEPT !.eventListeners[e] = Append(@, cb)]
IndexOf(s, cb) == IF \E i \in 1..Len(s) : s[i] = cb
                  THEN Lowest({i \in 1..Len(s) : s[i] = cb}) ELSE 0
Splice(s, k) == [i \in 1..(Len(s) - 1) |-> IF i < k THEN s[i] ELSE s[i + 1]]
off(w, e, cb) ==
  IF IndexOf(w.eventListeners[e], cb) = 0 THEN w
  ELSE [w EXCEPT !.eventListeners[e] = Splice(@, IndexOf(@, cb))]

\* callback(data), for the callback cb of the event name: what the handler
\* does to the manager before it returns or throws.
callback(w, name, cb) == IF cb \in Removers THEN off(w, name, cb) ELSE w

\* listeners.forEach(callback => { try { callback(data) } catch { log } }).
\* Array.prototype.forEach visits the indices below the length the array had
\* when the loop began and, at each, calls the element the array holds there
\* now; an index that a splice has emptied is passed over.  k: the index,
\* len: the length at the start, caught: the try / catch is in place.
\* The result: the callbacks called, in order, and whether an exception
\* left the loop.
RECURSIVE Visit(_, _, _, _, _)
Visit(w, name, k, len, caught) ==
  IF k > len THEN [w |-> w, called |-> <<>>, thrown |-> FALSE]
  ELSE IF k > Len(Listeners(w, name)) THEN Visit(w, name, k + 1, len, caught)
  ELSE LET cb == Listeners(w, name)[k]
           w1 == callback(w, name, cb)
       IN IF cb \in Throwing /\ ~caught
          THEN [w |-> w1, called |-> <<cb>>, thrown |-> TRUE]
          ELSE LET r == Visit(w1, name, k + 1, len, caught)
               IN [w |-> r.w, called |-> <<cb>> \o r.called, thrown |-> r.thrown]

\* The loop without the try / catch around the call: the first callback that
\* throws ends it.
forEachUncaught(w, name) == Visit(w, name, 1, Len(Listeners(w, name)), FALSE)
forEach(w, name) == Visit(w, name, 1, Len(Listeners(w, name)), TRUE)

triggerEvent(w, name, id) ==
  LET r == forEach(w, name)
      w0 == [r.w EXCEPT !.thrown = @ \/ r.thrown]
      w1 == IF "regs" \in w.watch THEN [w0 EXCEPT !.invoked = Append(@, r.called)] ELSE w0
  IN IF "events" \in w.watch THEN [w1 EXCEPT !.events = Append(@, <<name, id>>)] ELSE w1

(***************************************************************************)
(* Voice pool.                                                             *)
(***************************************************************************)
createPooledAudio(w) ==
  [w EXCEPT !.els = Append(@, NewAudio),
            !.audioPool = Append(@, Len(w.els) + 1)]

RECURSIVE CreateN(_, _)
CreateN(w, n) == IF n = 0 THEN w ELSE CreateN(createPooledAudio(w), n - 1)

\* init(): the AudioContext is created if the platform allows (ctxOk); the
\* five elements and the visibility listener are added either way.
init(w, ctxOk) ==
  IF w.isInitialized THEN w
  ELSE LET w1 == IF ctxOk THEN [w EXCEPT !.audioContext = "open", !.isInitialized = TRUE]
                 ELSE w
           w2 == CreateN(w1, InitialPool)
       IN [w2 EXCEPT !.visListeners = @ + 1]

\* ensureInitialized without its call of init().
ensureInitializedSkipped(w, ctxOk) == w
ensureInitialized(w, ctxOk) == IF ~w.isInitialized THEN init(w, ctxOk) ELSE w
Ready(w) == w.isInitialized /\ w.audioContext # "none"

\* getAudioFromPool(): the world after the call and the element returned.
IdleIdx(w) == {i \in 1..Len(w.audioPool) : w.els[w.audioPool[i]].paused}
\* getAudioFromPool reusing, at capacity, the newest element of the pool.
getAudioFromPoolNewest(w) ==
  IF IdleIdx(w) # {} THEN [w |-> w, audio |-> w.audioPool[Lowest(IdleIdx(w))]]
  ELSE IF Len(w.audioPool) < maxPoolSize
       THEN [w |-> createPooledAudio(w), audio |-> Len(w.els) + 1]
  ELSE LET a == w.audioPool[Len(w.audioPool)]
       IN [w |-> AudioPause(w, a), audio |-> a]
getAudioFromPool(w) ==
  IF IdleIdx(w) # {} THEN [w |-> w, audio |-> w.audioPool[Lowest(IdleIdx(w))]]
  ELSE IF Len(w.audioPool) < maxPoolSize
       THEN [w |-> createPooledAudio(w), audio |-> Len(w.els) + 1]
  ELSE LET a == Head(w.audioPool)
           w1 == AudioPause(w, a)
       IN [w |-> [w1 EXCEPT !.audioPool = Append(Tail(@), a)], audio |-> a]

(***************************************************************************)
(* Numbers: Math.min / Math.max and the product, NaN included.             *)
(***************************************************************************)
MathMin(a, b) == IF a = NaN \/ b = NaN THEN NaN ELSE IF a < b THEN a ELSE b
MathMax(a, b) == IF a = NaN \/ b = NaN THEN NaN ELSE IF a > b THEN a ELSE b
Times(a, b) == IF a = NaN \/ b = NaN THEN NaN ELSE (a * b) \div 100
Clamp01(v) == MathMax(0, MathMin(100, v))
OrOne(v) == IF v = NoVal THEN 100 ELSE v

(***************************************************************************)
(* The registry and the Sound objects.                                     *)
(***************************************************************************)
NoSound == [reg |-> FALSE, audio |-> 0, isMusic |-> FALSE, isPlaying |-> FALSE,
            gain |-> NoNode, optVolume |-> NoVal]
Has(w, id) == w.sounds[id].reg
Registered(w) == {id \in SoundIds : w.sounds[id].reg}

\* The bag of timers after the object registered as id is replaced.
DetachBag(B, id) ==
  LET S == BagToSet(B)
      T == {Detach(r, id) : r \in S}
      Was(t) == [t EXCEPT !.live = TRUE]
  IN [t \in T |-> (IF t \in S /\ Detach(t, id) = t THEN B[t] ELSE 0)
                 + (IF ~t.live /\ t.id = id /\ Was(t) \in S THEN B[Was(t)] ELSE 0)]

\* Every reference to the object registered as id stops being live.
DetachAll(w, id) ==
  [w EXCEPT !.currentMusic = Detach(@, id),
            !.timers = DetachBag(@, id),
            !.els = [a \in DOMAIN w.els |->
                       [w.els[a] EXCEPT !.onended.ref = Detach(@, id)]]]

\* cleanupAudioNodes(sound), sound being the registry's object for id.
cleanupAudioNodes(w, id) == [w EXCEPT !.sounds[id].gain = NoNode]

(***************************************************************************)
(* stop(id, options): only options.fadeOut is read.                        *)
(***************************************************************************)
StopNow(w, id) ==
  LET a == w.sounds[id].audio
  IN cleanupAudioNodes([AudioPause(w, a) EXCEPT !.els[a].currentTime = 0,
                                                !.sounds[id].isPlaying = FALSE], id)

StopFade(w, id) ==
  [w EXCEPT !.sounds[id].gain.ramps = @ \cup {0},
            !.timers = @ (+) SetToBag({Ref(w, id)})]

stop(w, id, fadeOut) ==
  IF ~Has(w, id) THEN w
  ELSE LET w1 == IF fadeOut > 0 /\ w.sounds[id].gain.on /\ w.audioContext # "none"
                 THEN StopFade(w, id)
                 ELSE StopNow(w, id)
       IN IF w1.currentMusic.id = id THEN [w1 EXCEPT !.currentMusic = NoRef] ELSE w1

(***************************************************************************)
(* play(id, options).  o = [volume, loop, fadeIn, fadeOut].                *)
(***************************************************************************)
ChannelMuted(w, id) ==
  (w.sounds[id].isMusic /\ w.isMusicMuted) \/ (~w.sounds[id].isMusic /\ w.isSfxMuted)

\* The volume of a play without the channel volume.
PlayVolumeUnscaled(w, id, o) == OrOne(o.volume)
PlayVolume(w, id, o) ==
  Times(OrOne(o.volume), IF w.sounds[id].isMusic THEN w.musicVolume ELSE w.sfxVolume)

PlayStart(w, id, o) ==
  LET a == w.sounds[id].audio
      volume == PlayVolume(w, id, o)
      node == IF o.fadeIn > 0
              THEN [on |-> TRUE, value |-> 0, ramps |-> {volume}]
              ELSE [on |-> TRUE, value |-> volume, ramps |-> {}]
      w1 == [w EXCEPT !.sounds[id].gain = node, !.els[a].loop = o.loop]
      w2 == AudioPlay(w1, a)
  IN [w2 EXCEPT !.sounds[id].isPlaying = TRUE, !.sounds[id].optVolume = o.volume]

\* PlayMusic stopping the previous music without the new call's fadeOut.
PlayMusicAbrupt(w, id, o) ==
  IF ~w.sounds[id].isMusic THEN w
  ELSE LET w1 == IF w.currentMusic.id # NoId /\ w.currentMusic.id # id
                 THEN stop(w, w.currentMusic.id, NoVal)
                 ELSE w
       IN [w1 EXCEPT !.currentMusic = Ref(w1, id)]
PlayMusic(w, id, o) ==
  IF ~w.sounds[id].isMusic THEN w
  ELSE LET w1 == IF w.currentMusic.id # NoId /\ w.currentMusic.id # id
                 THEN stop(w, w.currentMusic.id, o.fadeOut)
                 ELSE w
       IN [w1 EXCEPT !.currentMusic = Ref(w1, id)]

\* play without its early return for a muted channel.
playIgnoringMute(w, id, o, ctxOk) ==
  LET w0 == ensureInitialized(w, ctxOk)
  IN IF ~Ready(w0) THEN w0
     ELSE IF ~Has(w0, id) THEN w0
     ELSE LET w1 == PlayMusic(PlayStart(w0, id, o), id, o)
              w2 == [w1 EXCEPT !.els[w1.sounds[id].audio].onended =
                                   [ref |-> Ref(w1, id), loop |-> o.loop]]
          IN triggerEvent(w2, "play", id)
play(w, id, o, ctxOk) ==
  LET w0 == ensureInitialized(w, ctxOk)
  IN IF ~Ready(w0) THEN w0
     ELSE IF ~Has(w0, id) THEN w0
     ELSE IF ChannelMuted(w0, id) THEN w0
     ELSE LET w1 == PlayMusic(PlayStart(w0, id, o), id, o)
              w2 == [w1 EXCEPT !.els[w1.sounds[id].audio].onended =
                                   [ref |-> Ref(w1, id), loop |-> o.loop]]
          IN triggerEvent(w2, "play", id)

(***************************************************************************)
(* pause(id) / resume(id).                                                 *)
(***************************************************************************)
\* pause without its test of sound.isPlaying.
pauseUnconditional(w, id) ==
  IF ~Has(w, id) THEN w
  ELSE triggerEvent([AudioPause(w, w.sounds[id].audio)
                       EXCEPT !.sounds[id].isPlaying = FALSE], "pause", id)
pause(w, id) ==
  IF ~Has(w, id) \/ ~w.sounds[id].isPlaying THEN w
  ELSE triggerEvent([AudioPause(w, w.sounds[id].audio)
                       EXCEPT !.sounds[id].isPlaying = FALSE], "pause", id)

resume(w, id) ==
  IF ~Has(w, id) \/ w.sounds[id].isPlaying THEN w
  ELSE triggerEvent([AudioPlay(w, w.sounds[id].audio)
                       EXCEPT !.sounds[id].isPlaying = TRUE], "resume", id)

(***************************************************************************)
(* Channel mixer.                                                          *)
(***************************************************************************)
RECURSIVE ForEachSound(_, _, _)
\* this.sounds.forEach: F(w, id) applied for every registered id in ids.
ForEachSound(F(_, _), w, ids) ==
  IF ids = {} THEN w
  ELSE LET id == CHOOSE x \in ids : TRUE
       IN ForEachSound(F, F(w, id), ids \ {id})

setMusicVolume(w, v) ==
  LET w1 == [w EXCEPT !.musicVolume = Clamp01(v)]
      cm == w1.currentMusic
      w2 == IF cm.id # NoId /\ cm.live /\ w1.sounds[cm.id].gain.on
            THEN [w1 EXCEPT !.sounds[cm.id].gain.value =
                               Times(w1.musicVolume, OrOne(w1.sounds[cm.id].optVolume))]
            ELSE w1
  IN triggerEvent(w2, "volumeChange", "music")

SfxGain(w, id) ==
  IF ~w.sounds[id].isMusic /\ w.sounds[id].isPlaying /\ w.sounds[id].gain.on
  THEN [w EXCEPT !.sounds[id].gain.value = Times(w.sfxVolume, OrOne(w.sounds[id].optVolume))]
  ELSE w

setSfxVolume(w, v) ==
  LET w1 == [w EXCEPT !.sfxVolume = Clamp01(v)]
  IN triggerEvent(ForEachSound(SfxGain, w1, Registered(w1)), "volumeChange", "sfx")

toggleMusicMute(w) ==
  LET w1 == [w EXCEPT !.isMusicMuted = ~@]
      w2 == IF w1.currentMusic.id = NoId THEN w1
            ELSE IF w1.isMusicMuted THEN AudioPause(w1, w1.currentMusic.audio)
            ELSE AudioPlay(w1, w1.currentMusic.audio)
  IN triggerEvent(w2, "muteChange", "music")

SfxMute(w, id) ==
  IF ~w.sounds[id].isMusic /\ w.sounds[id].isPlaying
  THEN IF w.isSfxMuted THEN AudioPause(w, w.sounds[id].audio)
       ELSE AudioPlay(w, w.sounds[id].audio)
  ELSE w

toggleSfxMute(w) ==
  LET w1 == [w EXCEPT !.isSfxMuted = ~@]
  IN triggerEvent(ForEachSound(SfxMute, w1, Registered(w1)), "muteChange", "sfx")

setMusicMute(w, muted) == IF w.isMusicMuted = muted THEN w ELSE toggleMusicMute(w)
setSfxMute(w, muted) == IF w.isSfxMuted = muted THEN w ELSE toggleSfxMute(w)

(***************************************************************************)
(* Lifecycle: visibility transitions and dispose.                          *)
(***************************************************************************)
PauseIfPlaying(w, id) ==
  IF w.sounds[id].isPlaying THEN AudioPause(w, w.sounds[id].audio) ELSE w

\* handleBackgroundTransition pausing the current music only.
handleBackgroundMusicOnly(w) ==
  IF w.currentMusic.id # NoId THEN AudioPause(w, w.currentMusic.audio) ELSE w
handleBackgroundTransition(w) == ForEachSound(PauseIfPlaying, w, Registered(w))

\* handleForegroundTransition without its test of the mute flag.
handleForegroundUnconditional(w) ==
  IF w.currentMusic.id # NoId THEN AudioPlay(w, w.currentMusic.audio) ELSE w
handleForegroundTransition(w) ==
  IF w.currentMusic.id # NoId /\ ~w.isMusicMuted
  THEN AudioPlay(w, w.currentMusic.audio)
  ELSE w

\* The document runs every listener init() added; each calls the handler.
RECURSIVE Times_(_, _, _)
Times_(F(_), w, n) == IF n = 0 THEN w ELSE Times_(F, F(w), n - 1)
visibilitychange(w, nowHidden) ==
  IF nowHidden THEN Times_(handleBackgroundTransition, w, w.visListeners)
  ELSE Times_(handleForegroundTransition, w, w.visListeners)

StopPlain(w, id) == stop(w, id, NoVal)
Unregister(w, id) == [DetachAll(w, id) EXCEPT !.sounds[id] = NoSound]

\* dispose without the stop(id) of its forEach.
disposeWithoutStop(w) ==
  LET w2 == ForEachSound(Unregister, w, Registered(w))
  IN [w2 EXCEPT !.soundsCache = {}, !.eventListeners = [e \in DOMAIN @ |-> <<>>],
                !.audioContext = "none", !.currentMusic = NoRef,
                !.isInitialized = FALSE]
\* dispose without `this.eventListeners.clear()`.
disposeKeepsListeners(w) ==
  LET w1 == ForEachSound(StopPlain, w, Registered(w))
      w2 == ForEachSound(Unregister, w1, Registered(w1))
  IN [w2 EXCEPT !.soundsCache = {}, !.audioContext = "none", !.currentMusic = NoRef,
                !.isInitialized = FALSE]
dispose(w) ==
  LET w1 == ForEachSound(StopPlain, w, Registered(w))
      w2 == ForEachSound(Unregister, w1, Registered(w1))
  IN [w2 EXCEPT !.soundsCache = {}, !.eventListeners = [e \in DOMAIN @ |-> <<>>],
                !.audioContext = "none", !.currentMusic = NoRef,
                !.isInitialized = FALSE]

(***************************************************************************)
(* Deferred callbacks: the cleanup timer of stop, the element's onended.   *)
(***************************************************************************)
\* The setTimeout callback of stop(), r being the Sound its closure holds.
\* The timer callback without `sound.isPlaying = false` and the node cleanup.
TimerBodyKeepsPlaying(w, r) ==
  [AudioPause(w, r.audio) EXCEPT !.els[r.audio].currentTime = 0]
TimerBody(w, r) ==
  LET w1 == [AudioPause(w, r.audio) EXCEPT !.els[r.audio].currentTime = 0]
  IN IF r.live
     THEN cleanupAudioNodes([w1 EXCEPT !.sounds[r.id].isPlaying = FALSE], r.id)
     ELSE w1

\* The element a reaches its end: the platform pauses it, then onended runs.
onended(w, a) ==
  LET h == w.els[a].onended
      w1 == AudioPause(w, a)
  IN IF h.ref.id = NoId THEN w1
     ELSE LET w2 == IF h.ref.live THEN [w1 EXCEPT !.sounds[h.ref.id].isPlaying = FALSE]
                    ELSE w1
              w3 == triggerEvent(w2, "end", h.ref.id)
          IN IF ~h.loop /\ h.ref.live /\ ~w3.thrown THEN cleanupAudioNodes(w3, h.ref.id)
             ELSE w3

\* A scheduled linearRampToValueAtTime reaches its end time.
RampEnd(w, id, target) ==
  [w EXCEPT !.sounds[id].gain.value = target, !.sounds[id].gain.ramps = @ \ {target}]

(***************************************************************************)
(* Loading.  loadSound runs to its first await (LoadSoundStart), and after *)
(* `await fetch(url)` / `await response.arrayBuffer()` either continues    *)
(* (LoadSoundResume, ok) or lands in its catch (LoadSoundResume, ~ok).     *)
(* out: "sound" (a Sound is returned), "null", or "fetch" (awaiting).      *)
(***************************************************************************)
NewSound(a, isMusic) == [reg |-> TRUE, audio |-> a, isMusic |-> isMusic,
                         isPlaying |-> FALSE, gain |-> NoNode, optVolume |-> NoVal]

\* getAudioFromPool, audio.src = ..., this.sounds.set(id, sound).
Register(w, id, url, isMusic) ==
  LET g == getAudioFromPool(w)
      w1 == [g.w EXCEPT !.els[g.audio].src = url, !.els[g.audio].currentTime = 0]
      w2 == IF Has(w1, id) THEN DetachAll(w1, id) ELSE w1
  IN [w2 EXCEPT !.sounds[id] = NewSound(g.audio, isMusic)]

LoadSoundStart(w, id, url, isMusic, ctxOk) ==
  LET w0 == ensureInitialized(w, ctxOk)
  IN IF ~Ready(w0) THEN [w |-> w0, out |-> "null"]
     ELSE IF Has(w0, id) THEN [w |-> w0, out |-> "sound"]
     ELSE IF url \in w0.soundsCache
          THEN [w |-> Register(w0, id, url, isMusic), out |-> "sound"]
     ELSE [w |-> w0, out |-> "fetch"]

\* The catch block of loadSound.
LoadSoundCatch(w, id) == [w |-> triggerEvent(w, "error", id), out |-> "null"]

LoadSoundResume(w, id, url, isMusic, ok) ==
  IF ok
  THEN LET w1 == [w EXCEPT !.soundsCache = @ \cup {url}]
           w2 == triggerEvent(Register(w1, id, url, isMusic), "load", id)
       IN IF w2.thrown THEN LoadSoundCatch([w2 EXCEPT !.thrown = FALSE], id)
          ELSE [w |-> w2, out |-> "sound"]
  ELSE LoadSoundCatch(w, id)

(***************************************************************************)
(* Loads in flight.  A task is one loadSound call awaiting its fetch       *)
(* (kind "load") or one entry of preloadSounds (kind "preload"), which     *)
(* awaits fileExists (pc "probe") or its loadSound (pc "fetch") for the    *)
(* i-th URL of the entry.                                                  *)
(***************************************************************************)
NoTask == [pc |-> "done", kind |-> "none", id |-> NoId, url |-> NoId, i |-> 0]
LoadTask(id, url) == [pc |-> "fetch", kind |-> "load", id |-> id, url |-> url, i |-> 0]
ProbeTask(id, i) == [pc |-> "probe", kind |-> "preload", id |-> id,
                     url |-> UrlsOf(id)[i], i |-> i]

\* preloadSounds, after the URL of task tk did not load: the next alternate is
\* probed, or the entry ends with its error event.
\* The end of a preload entry without the error event.
PreloadNextSilent(w, tk) ==
  IF tk.i < Len(UrlsOf(tk.id))
  THEN [w |-> w, task |-> ProbeTask(tk.id, tk.i + 1)]
  ELSE [w |-> w, task |-> NoTask]
PreloadNext(w, tk) ==
  IF tk.i < Len(UrlsOf(tk.id))
  THEN [w |-> w, task |-> ProbeTask(tk.id, tk.i + 1)]
  ELSE [w |-> triggerEvent(w, "error", tk.id), task |-> NoTask]

\* The continuation of task tk once its loadSound call gave r.
\* The continuation without `if (loaded) break`: a preload entry goes on to
\* its next alternate after a load that succeeded.
AfterLoadKeepsTrying(r, tk) ==
  IF r.out = "fetch" THEN [w |-> r.w, task |-> [tk EXCEPT !.pc = "fetch"]]
  ELSE IF tk.kind = "load" THEN [w |-> r.w, task |-> NoTask]
  ELSE PreloadNext(r.w, tk)
AfterLoad(r, tk) ==
  IF r.out = "fetch" THEN [w |-> r.w, task |-> [tk EXCEPT !.pc = "fetch"]]
  ELSE IF r.out = "sound" \/ tk.kind = "load" THEN [w |-> r.w, task |-> NoTask]
  ELSE PreloadNext(r.w, tk)

\* fileExists(url) resolved with `exists`.
ProbeStep(w, tk, exists, ctxOk) ==
  IF exists
  THEN AfterLoad(LoadSoundStart(w, tk.id, tk.url, IsMusicOf(tk.id), ctxOk), tk)
  ELSE PreloadNext(w, tk)

\* The fetch of task tk resolved (ok) or rejected.
FetchStep(w, tk, ok) ==
  AfterLoad(LoadSoundResume(w, tk.id, tk.url, IsMusicOf(tk.id), ok), tk)

(***************************************************************************)
(* History kept for the properties (not program state).                    *)
(*   hist: [k |-> "play", id] after a play(id, {fadeIn > 0}) that played;  *)
(*         [k |-> "playstop", id] after a stop(id, {fadeOut > 0}) that     *)
(*         directly followed it; [k |-> "switch", id] after a play(id)     *)
(*         without fadeIn that played a music sound while another id was   *)
(*         the current music; reset by every other public call.            *)
(*         Where disposed is kept, hist is instead the kind of the last    *)
(*         public call: "lazy" for init, loadSound and play made where     *)
(*         the audio context can be created, "call" for the others.        *)
(*         Where calls are kept, hist is the last public call: its name    *)
(*         and the id it was made with.                                    *)
(*         Where errs are kept, hist is [k |-> "erred", id] once a step of  *)
(*         a load has emitted an error event for id since the last public  *)
(*         call.                                                           *)
(*   bg:   taken at a background transition ("hidden"), kept until the     *)
(*         step after the next foreground transition ("back"): the music   *)
(*         mute flag, the current music if it was playing, the sfx sounds  *)
(*         that were playing; quiet: while hidden, nothing but mute        *)
(*         changes happened.                                               *)
(*   disposed: "yes" once dispose() has left the engine uninitialized,     *)
(*         "again" once init() has succeeded after that.                   *)
(*   invoked: for the k-th event of the last step, the callbacks that were *)
(*         called for it, in order.                                        *)
(*   regLog: per event name, ons: the callbacks of the on() calls since    *)
(*         the last dispose(), in order; offs: per callback, the off()     *)
(*         calls made while a registration of it was outstanding.          *)
(*   escaped: an exception left triggerEvent, uncaught, in the last step.   *)
(*   atMute: for each channel, the sounds of the channel that were playing *)
(*         with their audio running when the channel was last muted.       *)
(***************************************************************************)
NoHist == [k |-> "none", id |-> NoId]
NoBg == [on |-> "no", muted |-> FALSE, music |-> NoId, sfx |-> {}, quiet |-> FALSE]

Running(w, id) == w.sounds[id].reg /\ ~w.els[w.sounds[id].audio].paused
Snapshot(w) ==
  [on |-> "hidden", muted |-> w.isMusicMuted,
   music |-> IF w.currentMusic.id # NoId /\ w.currentMusic.live
                /\ w.sounds[w.currentMusic.id].isPlaying
             THEN w.currentMusic.id ELSE NoId,
   sfx |-> {id \in SoundIds : w.sounds[id].reg /\ ~w.sounds[id].isMusic
                              /\ w.sounds[id].isPlaying /\ Running(w, id)},
   quiet |-> TRUE]
Loud == IF bg.on = "hidden" THEN [bg EXCEPT !.quiet = FALSE] ELSE NoBg
Quiet == IF bg.on = "hidden" THEN bg ELSE NoBg
Hist(h) == IF "hist" \in watch THEN h ELSE NoHist
Did(name, id) == [k |-> name, id |-> id]
Note(k, c, h) == IF "calls" \in watch THEN c
                 ELSE IF "disposed" \in watch THEN [k |-> k, id |-> NoId] ELSE Hist(h)
Kind(ctxOk) == IF ctxOk THEN "lazy" ELSE "call"

NoMute == [music |-> {}, sfx |-> {}]
NoRegs == [e \in EventNames |-> [ons |-> <<>>, offs |-> [cb \in AllHandlers |-> 0]]]
Audible(isMusic) == {id \in SoundIds : /\ sounds[id].reg /\ sounds[id].isMusic = isMusic
                                        /\ sounds[id].isPlaying /\ Running(World, id)}

Count(s, cb) == Cardinality({i \in 1..Len(s) : s[i] = cb})
Outstanding(log, cb) == Count(log.ons, cb) - log.offs[cb]
LogOn(w, e, cb) ==
  IF "regs" \in watch THEN [w EXCEPT !.regLog[e].ons = Append(@, cb)] ELSE w
LogOff(w, e, cb) ==
  IF "regs" \in watch /\ Outstanding(regLog[e], cb) > 0
  THEN [w EXCEPT !.regLog[e].offs[cb] = @ + 1] ELSE w

Bounded(w) == BagCardinality(w.timers) <= MaxTimers /\ w.visListeners <= MaxInits

\* The step to world w.
Commit(w) ==
  /\ Bounded(w)
  /\ isInitialized' = w.isInitialized
  /\ audioContext' = w.audioContext
  /\ sounds' = w.sounds
  /\ soundsCache' = w.soundsCache
  /\ musicVolume' = w.musicVolume
  /\ sfxVolume' = w.sfxVolume
  /\ isMusicMuted' = w.isMusicMuted
  /\ isSfxMuted' = w.isSfxMuted
  /\ currentMusic' = w.currentMusic
  /\ audioPool' = w.audioPool
  /\ els' = w.els
  /\ visListeners' = w.visListeners
  /\ timers' = w.timers
  /\ eventListeners' = w.eventListeners
  /\ events' = w.events
  /\ watch' = watch
  /\ invoked' = w.invoked
  /\ regLog' = w.regLog
  /\ escaped' = w.thrown
  /\ atMute' = IF "mute" \notin watch THEN NoMute
               ELSE [music |-> IF ~isMusicMuted /\ w.isMusicMuted THEN Audible(TRUE)
                               ELSE atMute.music,
                     sfx |-> IF ~isSfxMuted /\ w.isSfxMuted THEN Audible(FALSE)
                             ELSE atMute.sfx]
  /\ disposed' = IF "disposed" \notin watch THEN "no"
                 ELSE IF isInitialized /\ ~w.isInitialized THEN "yes"
                 ELSE IF disposed = "yes" /\ w.isInitialized THEN "again"
                 ELSE disposed

\* A public call that touches no load in flight and ends the history.
Call(c, w) == Commit(w) /\ hist' = Note("call", c, NoHist) /\ bg' = Loud /\ UNCHANGED <<tasks, hidden>>

(***************************************************************************)
(* Public calls.                                                           *)
(***************************************************************************)
CallInit(ctxOk) ==
  /\ Commit(init(World, ctxOk))
  /\ hist' = Note(Kind(ctxOk), Did("init", NoId), NoHist)
  /\ bg' = Loud /\ UNCHANGED <<tasks, hidden>>

\* The loads in flight once task tk has become task nt (NoTask: it is over).
Spawn(nt) == IF nt.pc = "done" THEN tasks ELSE tasks (+) SetToBag({nt})
Continue(tk, nt) == IF nt.pc = "done" THEN tasks (-) SetToBag({tk})
                    ELSE (tasks (-) SetToBag({tk})) (+) SetToBag({nt})
CanSpawn == BagCardinality(tasks) < MaxTasks

\* loadSound(id, url, isMusic) up to its first await.
LoadSoundCall(id, url, ctxOk) ==
  LET r == AfterLoad(LoadSoundStart(World, id, url, IsMusicOf(id), ctxOk), LoadTask(id, url))
  IN /\ Commit(r.w)
     /\ tasks' = Spawn(r.task)
     /\ hist' = Note(Kind(ctxOk), Did("loadSound", id), NoHist)
     /\ bg' = Loud /\ UNCHANGED hidden
CallLoadSound(id, url, ctxOk) == CanSpawn /\ LoadSoundCall(id, url, ctxOk)

\* preloadSounds([entry of id]): the entry's async function runs to its first
\* await, the fileExists probe of the primary URL.
CallPreload(id) ==
  /\ CanSpawn
  /\ Commit(World)
  /\ tasks' = Spawn(ProbeTask(id, 1))
  /\ hist' = Note("call", Did("preloadSounds", id), NoHist)
  /\ bg' = Loud /\ UNCHANGED hidden

\* play(id) did not return early, w being the world after the call.
Played(w, id) == Ready(w) /\ Has(w, id) /\ ~ChannelMuted(w, id)
\* play(id) is about to replace another id as the current music.
Switches(id) == sounds[id].reg /\ sounds[id].isMusic /\ currentMusic.id \notin {NoId, id}

CallPlay(id, o, ctxOk) ==
  LET w == play(World, id, o, ctxOk)
  IN /\ Commit(w)
     /\ hist' = Note(Kind(ctxOk), Did("play", id),
                      IF Played(w, id) /\ o.fadeIn > 0 THEN [k |-> "play", id |-> id]
                      ELSE IF Played(w, id) /\ Switches(id) THEN [k |-> "switch", id |-> id]
                      ELSE NoHist)
     /\ bg' = Loud /\ UNCHANGED <<tasks, hidden>>

CallStop(id, fadeOut) ==
  /\ Commit(stop(World, id, fadeOut))
  /\ hist' = Note("call", Did("stop", id),
                   IF hist = [k |-> "play", id |-> id] /\ fadeOut > 0
                   THEN [k |-> "playstop", id |-> id] ELSE NoHist)
  /\ bg' = Loud /\ UNCHANGED <<tasks, hidden>>

CallPause(id) == Call(Did("pause", id), pause(World, id))
CallResume(id) == Call(Did("resume", id), resume(World, id))
CallSetMusicVolume(v) == Call(Did("setMusicVolume", NoId), setMusicVolume(World, v))
CallSetSfxVolume(v) == Call(Did("setSfxVolume", NoId), setSfxVolume(World, v))
CallDispose == Call(Did("dispose", NoId), [dispose(World) EXCEPT !.regLog = NoRegs])
CallOn(e, cb) ==
  /\ Len(eventListeners[e]) < MaxListeners /\ Len(regLog[e].ons) < MaxRegs
  /\ Call(Did("on", NoId), LogOn(on(World, e, cb), e, cb))
CallOff(e, cb) == Call(Did("off", NoId), LogOff(off(World, e, cb), e, cb))

\* dispose(), noted in the log of registrations of every event.
Swept == "dispose"
SweepLog(w) ==
  IF "regs" \in watch
  THEN [w EXCEPT !.regLog = [e \in EventNames |-> [@[e] EXCEPT !.ons = Append(@, Swept)]]]
  ELSE w
CallDisposeLogged ==
  /\ \A e \in EventNames : Len(regLog[e].ons) < MaxRegs
  /\ Call(Did("dispose", NoId), SweepLog(dispose(World)))

\* The mute setters: the only calls that leave bg.quiet as it is.
Mute(c, w) ==
  Commit(w) /\ hist' = Note("call", c, NoHist) /\ bg' = Quiet /\ UNCHANGED <<tasks, hidden>>
CallToggleMusicMute == Mute(Did("toggleMusicMute", NoId), toggleMusicMute(World))
CallToggleSfxMute == Mute(Did("toggleSfxMute", NoId), toggleSfxMute(World))
CallSetMusicMute(muted) == Mute(Did("setMusicMute", NoId), setMusicMute(World, muted))
CallSetSfxMute(muted) == Mute(Did("setSfxMute", NoId), setSfxMute(World, muted))

(***************************************************************************)
(* Steps of the environment: the network, the document, timers, elements.  *)
(***************************************************************************)
Env(w) == Commit(w) /\ bg' = Loud /\ UNCHANGED <<tasks, hidden, hist>>

\* The history after a step of the load tk that left the world w.
Erred(w, tk) ==
  IF "errs" \in watch /\ \E k \in 1..Len(w.events) : w.events[k] = <<"error", tk.id>>
  THEN [k |-> "erred", id |-> tk.id] ELSE hist

ProbeDone(tk, exists, ctxOk) ==
  /\ BagIn(tk, tasks) /\ tk.pc = "probe"
  /\ LET r == ProbeStep(World, tk, exists, ctxOk)
     IN Commit(r.w) /\ tasks' = Continue(tk, r.task) /\ hist' = Erred(r.w, tk)
  /\ bg' = Loud /\ UNCHANGED hidden

FetchDone(tk, ok) ==
  /\ BagIn(tk, tasks) /\ tk.pc = "fetch"
  /\ LET r == FetchStep(World, tk, ok)
     IN Commit(r.w) /\ tasks' = Continue(tk, r.task) /\ hist' = Erred(r.w, tk)
  /\ bg' = Loud /\ UNCHANGED hidden

Background ==
  /\ ~hidden
  /\ hidden' = TRUE
  /\ Commit(visibilitychange(World, TRUE))
  /\ bg' = IF "bg" \in watch THEN Snapshot(World) ELSE NoBg
  /\ UNCHANGED <<tasks, hist>>

Foreground ==
  /\ hidden
  /\ hidden' = FALSE
  /\ Commit(visibilitychange(World, FALSE))
  /\ bg' = IF bg.on = "hidden" THEN [bg EXCEPT !.on = "back"] ELSE NoBg
  /\ UNCHANGED <<tasks, hist>>

TimerFire(r) ==
  /\ BagIn(r, timers)
  /\ Env(TimerBody([World EXCEPT !.timers = @ (-) SetToBag({r})], r))

AudioEnded(a) ==
  /\ a \in DOMAIN els
  /\ ~els[a].paused /\ ~els[a].loop
  /\ Env(onended(World, a))

RampDone(id, target) ==
  /\ sounds[id].reg /\ target \in sounds[id].gain.ramps
  /\ Env(RampEnd(World, id, target))

(***************************************************************************)
(* The specifications.  Init is the manager as constructed.  Each          *)
(* specification lets the callers and the environment take the steps of    *)
(* one part of the engine, with the inputs listed, and records the         *)
(* history its properties read (watch).                                    *)
(***************************************************************************)
Plain == [volume |-> NoVal, loop |-> FALSE, fadeIn |-> NoVal, fadeOut |-> NoVal]
PlayOptions == {Plain, [Plain EXCEPT !.fadeIn = 1], [Plain EXCEPT !.fadeOut = 1]}
LoopOptions == {Plain, [Plain EXCEPT !.loop = TRUE]}
VolumeOptions == {Plain, [Plain EXCEPT !.volume = 50]}
MixOptions == VolumeOptions \cup {[Plain EXCEPT !.volume = 50, !.fadeIn = 1]}
GainValues == {0, 25, 50, 100, NaN}

InitWatch(ws) ==
  /\ isInitialized = FALSE
  /\ audioContext = "none"
  /\ sounds = [id \in SoundIds |-> NoSound]
  /\ soundsCache = {}
  /\ musicVolume = 100
  /\ sfxVolume = 100
  /\ isMusicMuted = FALSE
  /\ isSfxMuted = FALSE
  /\ currentMusic = NoRef
  /\ audioPool = <<>>
  /\ els = <<>>
  /\ visListeners = 0
  /\ hidden = FALSE
  /\ timers = EmptyBag
  /\ tasks = EmptyBag
  /\ eventListeners = [e \in EventNames |-> <<>>]
  /\ events = <<>>
  /\ hist = NoHist
  /\ bg = NoBg
  /\ disposed = "no"
  /\ atMute = NoMute
  /\ invoked = <<>>
  /\ regLog = NoRegs
  /\ escaped = FALSE
  /\ watch = ws

\* A caller that awaits each load before it starts the next.
NoLoads == tasks = EmptyBag
LoadAlone(id) == NoLoads /\ CallLoadSound(id, UrlsOf(id)[1], TRUE)

\* Playback of the two music sounds.
Init == InitWatch({"hist"})
Next ==
  \/ \E id \in {"m1", "m2"} : LoadAlone(id)
  \/ \E tk \in BagToSet(tasks), ok \in BOOLEAN : FetchDone(tk, ok)
  \/ \E id \in {"m1", "m2"}, o \in PlayOptions : CallPlay(id, o, TRUE)
  \/ \E id \in {"m1", "m2"}, f \in FadeInputs : CallStop(id, f)
  \/ \E id \in {"m1", "m2"} : CallPause(id)
  \/ \E id \in {"m1", "m2"} : CallResume(id)
  \/ CallToggleMusicMute
  \/ \E b \in BOOLEAN : CallSetMusicMute(b)
  \/ Background
  \/ Foreground
  \/ \E r \in BagToSet(timers) : TimerFire(r)
  \/ \E a \in DOMAIN els : AudioEnded(a)
  \/ \E id \in {"m1", "m2"}, target \in GainValues : RampDone(id, target)
Spec == Init /\ [][Next]_vars

\* Background and foreground with a music and an sfx sound.
NextVis ==
  \/ \E id \in {"m1", "s1"} : LoadAlone(id)
  \/ \E tk \in BagToSet(tasks), ok \in BOOLEAN : FetchDone(tk, ok)
  \/ \E id \in {"m1", "s1"}, o \in LoopOptions : CallPlay(id, o, TRUE)
  \/ \E id \in {"m1", "s1"} : CallStop(id, NoVal)
  \/ \E id \in {"m1", "s1"} : CallPause(id)
  \/ \E id \in {"m1", "s1"} : CallResume(id)
  \/ CallToggleMusicMute
  \/ CallToggleSfxMute
  \/ Background
  \/ Foreground
  \/ \E a \in DOMAIN els : AudioEnded(a)
SpecVis == InitWatch({"bg"}) /\ [][NextVis]_vars

\* The pool under init, failed init, dispose and lazy re-initialization.
NextPool ==
  \/ \E ctxOk \in BOOLEAN : CallInit(ctxOk)
  \/ CallDispose
  \/ \E id \in {"m1", "s1"}, ctxOk \in BOOLEAN : NoLoads /\ CallLoadSound(id, "u1", ctxOk)
  \/ \E tk \in BagToSet(tasks), ok \in BOOLEAN : FetchDone(tk, ok)
  \/ \E id \in {"m1", "s1"}, ctxOk \in BOOLEAN : CallPlay(id, Plain, ctxOk)
  \/ \E id \in {"m1", "s1"} : CallStop(id, NoVal)
SpecPool == InitWatch({"events"}) /\ [][NextPool]_vars

\* Every public call, before and after dispose.
Cycles == visListeners' <= MaxCycles
NextLife ==
  \/ \E ctxOk \in BOOLEAN : CallInit(ctxOk) /\ Cycles
  \/ CallDispose
  \/ \E ctxOk \in BOOLEAN : NoLoads /\ CallLoadSound("m1", "u1", ctxOk) /\ Cycles
  \/ NoLoads /\ CallPreload("m1")
  \/ \E tk \in BagToSet(tasks), ok \in BOOLEAN, ctxOk \in BOOLEAN :
        ProbeDone(tk, ok, ctxOk) /\ Cycles
  \/ \E tk \in BagToSet(tasks), ok \in BOOLEAN : FetchDone(tk, ok)
  \/ \E ctxOk \in BOOLEAN : CallPlay("m1", Plain, ctxOk) /\ Cycles
  \/ CallStop("m1", NoVal)
  \/ CallPause("m1")
  \/ CallResume("m1")
  \/ CallSetMusicVolume(150)
  \/ CallSetSfxVolume(150)
  \/ CallToggleMusicMute
  \/ CallToggleSfxMute
  \/ \E b \in BOOLEAN : CallSetMusicMute(b)
  \/ \E b \in BOOLEAN : CallSetSfxMute(b)
  \/ CallOn("load", "h1")
  \/ CallOff("load", "h1")
SpecLife == InitWatch({"disposed"}) /\ [][NextLife]_vars

\* Loading: preload entries and loadSound calls in flight together.
NextLoad ==
  \/ CallPreload("m1")
  \/ \E url \in Urls : CallLoadSound("m1", url, TRUE)
  \/ \E tk \in BagToSet(tasks), ok \in BOOLEAN, ctxOk \in BOOLEAN :
        ProbeDone(tk, ok, ctxOk) /\ Cycles
  \/ \E tk \in BagToSet(tasks), ok \in BOOLEAN : FetchDone(tk, ok)
  \/ \E ctxOk \in BOOLEAN : CallPlay("m1", Plain, ctxOk) /\ Cycles
  \/ CallStop("m1", NoVal)
SpecLoad == InitWatch({"events"}) /\ [][NextLoad]_vars

\* Preload entries one at a time, with the error events of each.
NextEntry ==
  \/ \E id \in SoundIds : NoLoads /\ CallPreload(id)
  \/ \E tk \in BagToSet(tasks), ok \in BOOLEAN : ProbeDone(tk, ok, TRUE)
  \/ \E tk \in BagToSet(tasks), ok \in BOOLEAN : FetchDone(tk, ok)
SpecEntry == InitWatch({"events", "errs"}) /\ [][NextEntry]_vars

\* Handlers that unsubscribe while the load event is dispatched.
Unregistered(e, cb) == IndexOf(eventListeners[e], cb) = 0
NextOff ==
  \/ \E cb \in {"h1", "h3"} : Unregistered("load", cb) /\ CallOn("load", cb)
  \/ \E cb \in {"h1", "h3"} : CallOff("load", cb)
  \/ \E id \in SoundIds : LoadAlone(id)
  \/ \E tk \in BagToSet(tasks) : FetchDone(tk, TRUE)
SpecOff == InitWatch({"events", "regs"}) /\ [][NextOff]_vars

\* Handlers, volumes and mute flags across dispose and a new init.
NextReset ==
  \/ CallInit(TRUE) /\ Cycles
  \/ CallDisposeLogged
  \/ \E cb \in Handlers : CallOn("load", cb)
  \/ CallOff("load", "h1")
  \/ LoadAlone("m1")
  \/ \E tk \in BagToSet(tasks) : FetchDone(tk, TRUE)
  \/ CallSetMusicVolume(50)
  \/ CallSetSfxVolume(50)
  \/ CallToggleMusicMute
  \/ CallToggleSfxMute
SpecReset == InitWatch({"events", "regs"}) /\ [][NextReset]_vars

\* The event bus: registrations, removals and the dispatch of load and error.
NextBus ==
  \/ \E cb \in Handlers : CallOn("load", cb)
  \/ \E cb \in Handlers : CallOff("load", cb)
  \/ CallOn("error", "h1")
  \/ CallOff("error", "h1")
  \/ NoLoads /\ CallPreload("m1")
  \/ \E tk \in BagToSet(tasks), ok \in BOOLEAN : ProbeDone(tk, ok, TRUE) /\ Cycles
  \/ \E tk \in BagToSet(tasks), ok \in BOOLEAN : FetchDone(tk, ok)
  \/ CallDispose
SpecBus == InitWatch({"events", "regs"}) /\ [][NextBus]_vars

\* The states of a music and an sfx sound, with the events emitted.
NextState ==
  \/ \E id \in {"m1", "s1"} : LoadAlone(id)
  \/ \E tk \in BagToSet(tasks), ok \in BOOLEAN : FetchDone(tk, ok)
  \/ \E id \in {"m1", "s1"}, o \in LoopOptions : CallPlay(id, o, TRUE)
  \/ \E id \in {"m1", "s1"} : CallStop(id, NoVal)
  \/ \E id \in {"m1", "s1"} : CallPause(id)
  \/ \E id \in {"m1", "s1"} : CallResume(id)
  \/ \E b \in BOOLEAN : CallSetMusicMute(b)
  \/ \E b \in BOOLEAN : CallSetSfxMute(b)
  \/ \E a \in DOMAIN els : AudioEnded(a)
SpecState == InitWatch({"events", "calls"}) /\ [][NextState]_vars

\* Muting and unmuting the channels, with a music track fading out.
FadeOutOptions == {Plain, [Plain EXCEPT !.fadeOut = 1]}
NextMute ==
  \/ \E id \in SoundIds : LoadAlone(id)
  \/ \E tk \in BagToSet(tasks) : FetchDone(tk, TRUE)
  \/ \E id \in {"m1", "s1"} : CallPlay(id, Plain, TRUE)
  \/ \E o \in FadeOutOptions : CallPlay("m2", o, TRUE)
  \/ \E id \in {"m1", "s1"} : CallPause(id)
  \/ \E b \in BOOLEAN : CallSetMusicMute(b)
  \/ \E b \in BOOLEAN : CallSetSfxMute(b)
  \/ \E r \in BagToSet(timers) : TimerFire(r)
SpecMute == InitWatch({"events", "mute"}) /\ [][NextMute]_vars

\* The voice pool up to its capacity: many loads of one id in flight, each
\* registering the id anew, and the sound played in a loop in between.
Looping == [Plain EXCEPT !.loop = TRUE]
NextVoice ==
  \/ BagCardinality(tasks) < MaxBurst /\ LoadSoundCall("s1", "u1", TRUE)
  \/ \E tk \in BagToSet(tasks) : FetchDone(tk, TRUE)
  \/ CallPlay("s1", Looping, TRUE)
  \/ CallStop("s1", NoVal)
SpecVoice == InitWatch({"events"}) /\ [][NextVoice]_vars

\* The channel volumes.
NextMixer ==
  \/ \E id \in SoundIds : LoadAlone(id)
  \/ \E tk \in BagToSet(tasks) : FetchDone(tk, TRUE)
  \/ \E id \in {"m1", "s1"}, o \in VolumeOptions : CallPlay(id, o, TRUE)
  \/ \E o \in FadeOutOptions : CallPlay("m2", o, TRUE)
  \/ \E id \in {"m1", "s1"} : CallStop(id, NoVal)
  \/ \E v \in VolumeInputs : CallSetMusicVolume(v)
  \/ \E v \in VolumeInputs : CallSetSfxVolume(v)
  \/ \E r \in BagToSet(timers) : TimerFire(r)
SpecMixer == InitWatch({}) /\ [][NextMixer]_vars

\* The gain a play sets up, under every channel volume.
NextGain ==
  \/ \E id \in {"m1", "s1"} : LoadAlone(id)
  \/ \E tk \in BagToSet(tasks) : FetchDone(tk, TRUE)
  \/ \E id \in {"m1", "s1"}, o \in MixOptions : CallPlay(id, o, TRUE)
  \/ \E id \in {"m1", "s1"} : CallStop(id, NoVal)
  \/ \E v \in VolumeInputs : CallSetMusicVolume(v)
  \/ \E v \in VolumeInputs : CallSetSfxVolume(v)
  \/ \E id \in {"m1", "s1"}, target \in GainValues : RampDone(id, target)
SpecGain == InitWatch({}) /\ [][NextGain]_vars

(***************************************************************************)
(* Properties.                                                             *)
(***************************************************************************)
MusicPlaying == {id \in SoundIds : sounds[id].reg /\ sounds[id].isMusic /\ sounds[id].isPlaying}

\* The pending cleanup timers whose closure holds the registered Sound id.
LiveTimers(id) ==
  LET S == {r \in BagToSet(timers) : r.id = id /\ r.live}
  IN IF S = {} THEN 0 ELSE CopiesIn(CHOOSE r \in S : TRUE, timers)

\* The fetches of url in flight.
RECURSIVE SumCopies(_, _)
SumCopies(B, S) == IF S = {} THEN 0
                   ELSE LET x == CHOOSE y \in S : TRUE
                        IN CopiesIn(x, B) + SumCopies(B, S \ {x})
Fetching(url) == SumCopies(tasks, {tk \in BagToSet(tasks) : tk.pc = "fetch" /\ tk.url = url})

\* C1: in every reachable state at most one registered music sound is
\* Playing (isPlaying true).
C1_AtMostOneMusicPlaying == Cardinality(MusicPlaying) <= 1

\* C2: the voice pool never holds more elements than maxPoolSize, whatever
\* the sequence of init, failed init, dispose, lazy re-init and acquisitions.
C2_PoolWithinCapacity == Len(audioPool) <= maxPoolSize

\* C3: loads of the same URL started before the first resolves share one
\* fetch: at no time are two fetches of one URL in flight.
C3_OneFetchPerUrl == \A url \in Urls : Fetching(url) <= 1

\* C4: after play(id, {fadeIn > 0}) on a loaded, unmuted sound, directly
\* followed by stop(id, {fadeOut > 0}), and no further call, the sound is
\* Stopped once the cleanup timers of the stop have fired.
C4_FadeInThenFadeOutStops ==
  (hist.k = "playstop" /\ LiveTimers(hist.id) = 0) => ~sounds[hist.id].isPlaying

\* C4's case: the two calls were made, the fade-out elapsed, the sound is Stopped.
C4_Witness ==
  /\ hist.k = "playstop" /\ LiveTimers(hist.id) = 0
  /\ sounds[hist.id].reg /\ ~sounds[hist.id].isPlaying /\ ~sounds[hist.id].gain.on

\* C5: for each sound at most one fade is pending: never two cleanup timers,
\* never a fade-in ramp together with a fade-out, never two ramps on its gain.
C5_OneFadePerSound ==
  \A id \in SoundIds :
    /\ LiveTimers(id) <= 1
    /\ sounds[id].reg => Cardinality(sounds[id].gain.ramps) <= 1

FgStep == hidden /\ ~hidden'
\* A foreground transition after a background transition taken while the
\* current music was Playing, with nothing but mute changes in between.
MusicBack == FgStep /\ bg.on = "hidden" /\ bg.quiet /\ bg.music # NoId
BgAudio == sounds[bg.music].audio

\* C6 (as claimed): music that was Playing at the background transition is
\* resumed at the foreground transition iff the music channel was unmuted at
\* the moment of backgrounding.
C6_ResumeIffUnmutedAtBackground ==
  [][MusicBack => (~els'[BgAudio].paused <=> ~bg.muted)]_vars

\* C6 (amended): the foreground transition resumes the music iff the music
\* channel is unmuted at the moment of foregrounding; when it is muted the
\* transition starts no audio at all.
C6_ResumeIffUnmutedAtForeground ==
  [][MusicBack => IF isMusicMuted THEN els' = els ELSE ~els'[BgAudio].paused]_vars

\* C6's case: music was Playing and unmuted at the background transition, was
\* muted while backgrounded, and the foreground transition left it paused.
C6_Witness ==
  /\ bg.on = "back" /\ bg.quiet /\ bg.music # NoId
  /\ ~bg.muted /\ isMusicMuted /\ els[BgAudio].paused

\* C7: the foreground transition never resumes an sfx sound that was playing
\* when the app was backgrounded: its audio, paused before the transition, is
\* paused after it.
C7_SfxStaysPaused ==
  [][FgStep => \A id \in bg.sfx :
       (sounds[id].reg /\ els[sounds[id].audio].paused) => els'[sounds[id].audio].paused]_vars

\* The public calls of SpecLife that go through ensureInitialized, made
\* where the platform grants the audio context, and the other public calls.
InitializingCall ==
  \/ CallInit(TRUE)
  \/ CallLoadSound("m1", "u1", TRUE)
  \/ CallPlay("m1", Plain, TRUE)
OtherCall ==
  \/ CallPreload("m1")
  \/ CallStop("m1", NoVal) \/ CallPause("m1") \/ CallResume("m1")
  \/ CallSetMusicVolume(150) \/ CallSetSfxVolume(150)
  \/ CallToggleMusicMute \/ CallToggleSfxMute
  \/ \E b \in BOOLEAN : CallSetMusicMute(b) \/ CallSetSfxMute(b)
  \/ CallOn("load", "h1") \/ CallOff("load", "h1")

\* C8 (as claimed): after dispose(), every public call re-initializes the
\* engine.
C8_EveryCallReinitializes ==
  [][(disposed = "yes" /\ (InitializingCall \/ OtherCall)) => isInitialized']_vars

\* C8 (amended): after dispose(), init, loadSound and play re-initialize the
\* engine when the audio context can be created; stop, pause, resume, the
\* volume and mute setters, on, off and the start of a preload complete
\* without initializing it.
C8_LazyReinit ==
  [][disposed = "yes" =>
       /\ InitializingCall => (isInitialized' /\ audioContext' = "open")
       /\ OtherCall => (~isInitialized' /\ audioPool' = audioPool)]_vars

\* C8's case: the engine was disposed, a later call initialized it again and
\* the sound loaded after that is playing.
C8_Witness == disposed = "again" /\ isInitialized /\ sounds["m1"].isPlaying

\* A preload entry ends without having loaded its id: its last URL failed
\* the probe, or passed it and loadSound gave null (the fetch was rejected,
\* or the engine could not be initialized).
EndsUnloaded(tk) ==
  /\ tk.kind = "preload" /\ tk.i = Len(UrlsOf(tk.id))
  /\ \/ \E ctxOk \in BOOLEAN : ProbeDone(tk, FALSE, ctxOk)
     \/ ~isInitialized /\ ProbeDone(tk, TRUE, FALSE)
     \/ FetchDone(tk, FALSE)
Emitted(evs, name, id) == \E k \in 1..Len(evs) : evs[k] = <<name, id>>
FailedPreload ==
  \A tk \in BagToSet(tasks) :
    EndsUnloaded(tk) => /\ Emitted(events', "error", tk.id)
                        /\ sounds' = sounds
                        /\ tasks' = tasks (-) SetToBag({tk})
\* play(id) right after the error event of id, id not being registered.
PlayAfterError(id) ==
  /\ Emitted(events, "error", id) /\ ~sounds[id].reg
  /\ \E ctxOk \in BOOLEAN : CallPlay(id, Plain, ctxOk)

\* C9 (as claimed): a preload entry all of whose URLs fail still ends, emits
\* an error event with its id and registers nothing, and a later play(id)
\* changes no state.
C9_FailedPreloadThenPlayChangesNothing ==
  [][/\ FailedPreload
     /\ PlayAfterError("m1") =>
          UNCHANGED <<isInitialized, audioContext, sounds, soundsCache, musicVolume,
                      sfxVolume, isMusicMuted, isSfxMuted, currentMusic, audioPool,
                      els, visListeners, hidden, timers, tasks, eventListeners>>]_vars

\* C9 (amended): ... and a later play(id) emits no event and changes nothing
\* but what lazy initialization changes (isInitialized, the audio context,
\* new idle pool elements, the visibility listener).
C9_FailedPreloadThenPlayOnlyInitializes ==
  [][/\ FailedPreload
     /\ PlayAfterError("m1") =>
          /\ events' = <<>>
          /\ \A a \in DOMAIN els : els'[a] = els[a]
          /\ \A a \in DOMAIN els' : a \notin DOMAIN els => els'[a] = NewAudio
          /\ UNCHANGED <<sounds, soundsCache, musicVolume, sfxVolume, isMusicMuted,
                         isSfxMuted, currentMusic, hidden, timers, tasks,
                         eventListeners>>]_vars

\* C9's case: the preload of m1 has just ended with its error event and m1
\* is not registered.
C9_Witness == Emitted(events, "error", "m1") /\ ~sounds["m1"].reg /\ tasks = EmptyBag

\* C10: each channel volume lies in [0, 1] in every reachable state.
C10_VolumesClamped == musicVolume \in 0..100 /\ sfxVolume \in 0..100

\* The elements whose audio is running.
RunningEls(e) == {a \in DOMAIN e : ~e[a].paused}

\* C11: play(id, options) for an id that is not registered, or whose channel
\* is muted, changes no sound's state and not the current music, starts no
\* voice and emits no play event.
C11_PlayUnregisteredOrMutedIsNoOp ==
  [][\A id \in SoundIds, o \in LoopOptions :
       ((~sounds[id].reg \/ ChannelMuted(World, id)) /\ CallPlay(id, o, TRUE))
         => /\ sounds' = sounds
            /\ currentMusic' = currentMusic
            /\ RunningEls(els') = RunningEls(els)
            /\ ~Emitted(events', "play", id)]_vars

\* C11's case: play("m1") was just called with m1 registered and the music
\* channel muted, and m1 is not playing.
C11_Witness ==
  /\ hist = Did("play", "m1") /\ sounds["m1"].reg /\ isMusicMuted
  /\ ~sounds["m1"].isPlaying /\ events = <<>>

\* C12: a sound enters Playing only from Stopped via play or from Paused via
\* resume; in particular resume(id) on a sound that is Stopped (here: the
\* last public call was stop(id), which stopped it at once) does not make it
\* Playing.
C12_ResumeOfStoppedStaysStopped ==
  [][\A id \in SoundIds :
       (/\ hist = Did("stop", id)
        /\ sounds[id].reg /\ ~sounds[id].isPlaying
        /\ CallResume(id)) => ~sounds'[id].isPlaying]_vars

\* C13: play(id, options) of a registered, unmuted music sound while another
\* id is the current music stops that music in the same call, with the
\* fadeOut of the new call's options wherever it has a gain to fade (at once
\* when that fadeOut is absent or 0), and leaves id as the current music.
C13_PlaySwitchesMusic ==
  [][\A id \in SoundIds, o \in PlayOptions :
       (Switches(id) /\ ~isMusicMuted /\ CallPlay(id, o, TRUE)) =>
         LET old == currentMusic.id
             r == Ref(World, old)
         IN /\ currentMusic'.id = id /\ currentMusic'.live
            /\ sounds'[id].isPlaying
            /\ IF o.fadeOut > 0 /\ sounds[old].gain.on
               THEN /\ 0 \in sounds'[old].gain.ramps
                    /\ CopiesIn(r, timers') = CopiesIn(r, timers) + 1
                    /\ sounds'[old].isPlaying = sounds[old].isPlaying
               ELSE /\ ~sounds'[old].isPlaying /\ ~sounds'[old].gain.on
                    /\ els'[sounds[old].audio].paused
                    /\ timers' = timers]_vars

\* C13's case: play("m2", {fadeOut}) has just replaced m1, which was playing,
\* as the current music; m1 is fading out.
C13_Witness ==
  /\ hist = [k |-> "switch", id |-> "m2"]
  /\ currentMusic.id = "m2" /\ sounds["m2"].isPlaying
  /\ sounds["m1"].isPlaying /\ LiveTimers("m1") = 1 /\ 0 \in sounds["m1"].gain.ramps

\* The sound id is stopped: not playing, its element paused at position
\* zero, its gain node released.
StoppedNow(s, e, id) ==
  /\ ~s[id].isPlaying /\ ~s[id].gain.on
  /\ e[s[id].audio].paused /\ e[s[id].audio].currentTime = 0

\* C14: stop(id, {fadeOut > 0}) on a Playing sound keeps it Playing while the
\* gain ramps to 0, and the sound is Stopped, at position zero with its voice
\* released, when the duration elapses; in every other case the sound is
\* Stopped when stop returns.  Stated here for a sound that is not Playing
\* when stop is called: whatever the fadeOut, it is Stopped when stop returns.
C14_StopOfNotPlayingIsImmediate ==
  [][\A id \in SoundIds, f \in FadeInputs :
       (sounds[id].reg /\ ~sounds[id].isPlaying /\ CallStop(id, f))
         => StoppedNow(sounds', els', id)]_vars

\* C15: when a non-looping Playing sound reaches its natural end, it is
\* Stopped, its voice is idle and released, and exactly one end event
\* carrying its id is emitted.
C15_NaturalEndStops ==
  [][\A a \in DOMAIN els : AudioEnded(a) =>
       \A id \in SoundIds :
         (sounds[id].reg /\ sounds[id].audio = a /\ sounds[id].isPlaying)
           => /\ ~sounds'[id].isPlaying /\ ~sounds'[id].gain.on
              /\ els'[a].paused
              /\ events' = << <<"end", id>> >>]_vars

\* Everything but the history is as it was.
Untouched ==
  UNCHANGED <<isInitialized, audioContext, sounds, soundsCache, musicVolume,
              sfxVolume, isMusicMuted, isSfxMuted, currentMusic, audioPool, els,
              visListeners, hidden, timers, tasks, eventListeners>>

\* C16: pause(id) on a sound that is not Playing and resume(id) on a sound
\* that is Playing change nothing and emit no event; pause(id) of a Playing
\* sound followed by resume(id) leaves it Playing with the gain node it had.
C16_PauseResumeNoOps ==
  [][\A id \in SoundIds :
       /\ (sounds[id].reg /\ ~sounds[id].isPlaying /\ CallPause(id))
            => (Untouched /\ events' = <<>>)
       /\ (sounds[id].reg /\ sounds[id].isPlaying /\ CallResume(id))
            => (Untouched /\ events' = <<>>)
       /\ (sounds[id].reg /\ sounds[id].isPlaying /\ CallPause(id))
            => /\ ~sounds'[id].isPlaying /\ els'[sounds[id].audio].paused
               /\ sounds'[id].gain = sounds[id].gain
               /\ currentMusic' = currentMusic
               /\ events' = << <<"pause", id>> >>
       /\ (hist = Did("pause", id) /\ sounds[id].reg /\ ~sounds[id].isPlaying
           /\ CallResume(id))
            => /\ sounds'[id].isPlaying /\ ~els'[sounds[id].audio].paused
               /\ sounds'[id].gain = sounds[id].gain
               /\ currentMusic' = currentMusic
               /\ events' = << <<"resume", id>> >>]_vars

\* C16's case: m1, playing through its gain node, was paused and resumed: it
\* is Playing and has the gain node.
C16_Witness ==
  /\ hist = Did("resume", "m1") /\ events = << <<"resume", "m1">> >>
  /\ sounds["m1"].isPlaying /\ sounds["m1"].gain.on
  /\ ~els[sounds["m1"].audio].paused

\* C17: unmuting a channel resumes the audio of exactly the voices of the
\* channel that were actively playing when it was muted.  Stated here for the
\* others: a sound of the channel that was paused, stopped or not yet playing
\* at the mute, and whose audio is paused, is not started by the unmute.
C17_UnmuteStartsNoOtherVoice ==
  [][/\ (isMusicMuted /\ ~isMusicMuted') =>
          \A id \in SoundIds :
            (/\ sounds[id].reg /\ sounds[id].isMusic /\ id \notin atMute.music
             /\ els[sounds[id].audio].paused) => els'[sounds[id].audio].paused
     /\ (isSfxMuted /\ ~isSfxMuted') =>
          \A id \in SoundIds :
            (/\ sounds[id].reg /\ ~sounds[id].isMusic /\ id \notin atMute.sfx
             /\ els[sounds[id].audio].paused) => els'[sounds[id].audio].paused]_vars

\* The sounds of a channel that are Playing.
PlayingOn(isMusic) ==
  {id \in SoundIds : sounds[id].reg /\ sounds[id].isMusic = isMusic /\ sounds[id].isPlaying}
SameLogicalState == \A id \in SoundIds : sounds'[id].isPlaying = sounds[id].isPlaying

\* C18: muting a channel pauses the audio of every Playing sound of the
\* channel (a music track still fading out included) and leaves every
\* sound's isPlaying as it was; setMusicMute / setSfxMute with the value in
\* force changes nothing and emits no event.
C18_MutePausesChannel ==
  [][/\ (~isMusicMuted /\ isMusicMuted') =>
          /\ \A id \in PlayingOn(TRUE) : els'[sounds[id].audio].paused
          /\ SameLogicalState
     /\ (~isSfxMuted /\ isSfxMuted') =>
          /\ \A id \in PlayingOn(FALSE) : els'[sounds[id].audio].paused
          /\ SameLogicalState
     /\ CallSetMusicMute(isMusicMuted) => (Untouched /\ events' = <<>>)
     /\ CallSetSfxMute(isSfxMuted) => (Untouched /\ events' = <<>>)]_vars

\* The gain of every Playing sound of a channel is the channel volume times
\* the volume option of its play call (1 when unset).
GainFollows(isMusic, volume) ==
  \A id \in PlayingOn(isMusic) :
    /\ sounds'[id].gain.on
    /\ sounds'[id].gain.value = Times(volume, OrOne(sounds[id].optVolume))

\* C19: right after setMusicVolume(v) / setSfxVolume(v), every Playing sound
\* of that channel has gain equal to the new channel volume times its
\* per-play volume.
C19_VolumeReachesEveryPlaying ==
  [][\A v \in VolumeInputs :
       /\ CallSetMusicVolume(v) => GainFollows(TRUE, musicVolume')
       /\ CallSetSfxVolume(v) => GainFollows(FALSE, sfxVolume')]_vars

RECURSIVE IsSubseq(_, _)
\* s is t with some of its elements left out.
IsSubseq(s, t) ==
  IF s = <<>> THEN TRUE
  ELSE IF t = <<>> THEN FALSE
  ELSE IF Head(s) = Head(t) THEN IsSubseq(Tail(s), Tail(t))
  ELSE IsSubseq(s, Tail(t))

\* C20: when an event is triggered, every handler registered for its name is
\* invoked in that step, once per registration still outstanding (on() calls
\* minus the off() calls that removed one), in the order of the on() calls.
C20_HandlersInRegistrationOrder ==
  /\ Len(invoked) = Len(events)
  /\ \A k \in 1..Len(events) :
       LET e == events[k][1]
       IN IF e \in EventNames
          THEN /\ IsSubseq(invoked[k], regLog[e].ons)
               /\ \A cb \in Handlers :
                    Count(invoked[k], cb) = Outstanding(regLog[e], cb)
          ELSE invoked[k] = <<>>

\* C20's case: a load event has just invoked h2 and then h1, h1 having been
\* registered twice and removed once.
C20_Witness ==
  /\ Len(events) = 1 /\ events[1][1] = "load"
  /\ invoked = << <<"h2", "h1">> >>
  /\ regLog["load"].ons = <<"h1", "h2", "h1">> /\ regLog["load"].offs["h1"] = 1

\* The world in which no callback is registered, so that none can fail.
NoListeners == [World EXCEPT !.eventListeners = [e \in EventNames |-> <<>>]]
\* The step changed the engine's state and the loads in flight as w and
\* task nt say.
SameChange(w, tk, nt) ==
  /\ sounds' = w.sounds /\ soundsCache' = w.soundsCache
  /\ els' = w.els /\ audioPool' = w.audioPool
  /\ currentMusic' = w.currentMusic /\ timers' = w.timers
  /\ isInitialized' = w.isInitialized /\ audioContext' = w.audioContext
  /\ tasks' = Continue(tk, nt)
  /\ eventListeners' = eventListeners

\* C21: a handler that fails during the dispatch of an event is caught:
\* every handler of the event's array is still invoked, those after the
\* failing one included; no exception leaves triggerEvent; and the operation
\* that triggered the event makes the state change it makes where no handler
\* is registered.
C21_HandlerFailureIsContained ==
  [][/\ ~escaped'
     /\ \A k \in 1..Len(events') :
          events'[k][1] \in EventNames => invoked'[k] = eventListeners[events'[k][1]]
     /\ \A tk \in BagToSet(tasks), ok \in BOOLEAN :
          /\ FetchDone(tk, ok) =>
               LET r == FetchStep(NoListeners, tk, ok) IN SameChange(r.w, tk, r.task)
          /\ ProbeDone(tk, ok, TRUE) =>
               LET r == ProbeStep(NoListeners, tk, ok, TRUE) IN SameChange(r.w, tk, r.task)]_vars

\* C21's case: the load event of m1 called h2, which throws, and then h1;
\* m1 is registered and its load is over.
C21_Witness ==
  /\ events = << <<"load", "m1">> >> /\ invoked = << <<"h2", "h1">> >>
  /\ "h2" \in Throwing /\ ~escaped
  /\ sounds["m1"].reg /\ tasks = EmptyBag

\* What loadSound(id, url) returns at once: "sound", "null", or "fetch" when
\* it goes on to fetch the url.
LoadSoundReturns(id, url, ctxOk) == LoadSoundStart(World, id, url, IsMusicOf(id), ctxOk).out
\* No element that existed was touched, and the new ones are idle.
NoVoiceAcquired ==
  /\ \A a \in DOMAIN els : els'[a] = els[a]
  /\ \A a \in DOMAIN els' : a \notin DOMAIN els => els'[a] = NewAudio

\* C22: loadSound(id, url) for an id that is registered returns the existing
\* descriptor, starts no fetch, acquires no voice, emits no event and leaves
\* the registry and the cache as they were.
C22_ReloadIsIdempotent ==
  [][\A id \in SoundIds, url \in Urls, ctxOk \in BOOLEAN :
       (sounds[id].reg /\ CallLoadSound(id, url, ctxOk)) =>
         /\ LoadSoundReturns(id, url, ctxOk) = "sound"
         /\ sounds' = sounds /\ soundsCache' = soundsCache
         /\ tasks' = tasks
         /\ NoVoiceAcquired
         /\ events' = <<>>]_vars

\* The loads in flight once the entry tk has moved on to nts (none: it is over).
Moved(tk, nts) == tasks' = (tasks (-) SetToBag({tk})) (+) SetToBag(nts)
\* What the entry tk must do after a step in which its URL number tk.i was
\* loaded ("sound"), is being fetched ("fetch"), or failed ("null").
EntryGoesOn(tk, out) ==
  IF out = "sound" THEN Moved(tk, {})
  ELSE IF out = "fetch" THEN Moved(tk, {[tk EXCEPT !.pc = "fetch"]})
  ELSE IF tk.i < Len(UrlsOf(tk.id))
       THEN Moved(tk, {[pc |-> "probe", kind |-> "preload", id |-> tk.id,
                        url |-> UrlsOf(tk.id)[tk.i + 1], i |-> tk.i + 1]})
  ELSE Moved(tk, {})

IdlePositions == {i \in 1..Len(audioPool) : els[audioPool[i]].paused}
\* Apart from element a, the elements are as paused as they were.
OthersAsPaused(a) == \A b \in DOMAIN els : b # a => els'[b].paused = els[b].paused

\* C24: a load that registers its id acquires the first idle element of the
\* pool if there is one; otherwise a new element, appended to the pool, if
\* the pool is under capacity; otherwise the element at the head of the pool,
\* active as it is, which is paused and moved to the tail.
C24_AcquireIdleThenNewThenOldest ==
  [][\A tk \in BagToSet(tasks) : FetchDone(tk, TRUE) =>
       LET a == sounds'[tk.id].audio
       IN IF IdlePositions # {}
          THEN /\ a = audioPool[Lowest(IdlePositions)]
               /\ audioPool' = audioPool /\ DOMAIN els' = DOMAIN els
               /\ OthersAsPaused(a) /\ els'[a].paused
          ELSE IF Len(audioPool) < maxPoolSize
          THEN /\ a \notin DOMAIN els /\ els'[a].paused
               /\ audioPool' = Append(audioPool, a)
               /\ OthersAsPaused(a)
          ELSE /\ a = Head(audioPool) /\ ~els[a].paused /\ els'[a].paused
               /\ audioPool' = Append(Tail(audioPool), a)
               /\ DOMAIN els' = DOMAIN els /\ OthersAsPaused(a)]_vars

\* C24's case: with the pool at capacity and every element active, a load
\* has taken the element at the head, now paused and at the tail.
C24_Witness ==
  /\ Len(audioPool) = maxPoolSize /\ audioPool[maxPoolSize] = 1 /\ audioPool[1] = 2
  /\ sounds["s1"].reg /\ sounds["s1"].audio = 1 /\ els[1].paused
  /\ \A a \in DOMAIN els : a # 1 => ~els[a].paused

\* C25: below pool capacity, no two registered sounds hold the same audio
\* element while either of them is playing.
C25_OneSoundPerActiveVoice ==
  Len(audioPool) < maxPoolSize =>
    \A id \in SoundIds, other \in SoundIds :
      (/\ id # other /\ sounds[id].reg /\ sounds[other].reg
       /\ sounds[id].audio = sounds[other].audio) => ~sounds[id].isPlaying

\* C26: when dispose() returns, the audio of every sound that was registered
\* is paused at position zero, the registry and the cache are empty, there
\* is no current music, the audio context is gone and the engine is
\* uninitialized.
C26_DisposeLeavesNothing ==
  [][CallDispose =>
       /\ \A id \in SoundIds :
            sounds[id].reg => /\ els'[sounds[id].audio].paused
                              /\ els'[sounds[id].audio].currentTime = 0
       /\ \A id \in SoundIds : ~sounds'[id].reg
       /\ soundsCache' = {}
       /\ currentMusic'.id = NoId
       /\ audioContext' = "none"
       /\ ~isInitialized']_vars

\* C26's case: m1 had been played on an element, and after dispose() the
\* element is stopped, the registry empty and the engine uninitialized.
C26_Witness ==
  /\ disposed = "yes" /\ ~isInitialized /\ ~sounds["m1"].reg
  /\ \E a \in DOMAIN els :
       /\ els[a].onended.ref.id = "m1" /\ ~els[a].onended.ref.live
       /\ els[a].paused /\ els[a].currentTime = 0

\* C27: once init() has run (and the engine has not been disposed since), a
\* further init(), or the lazy initialization of a play, leaves the pool, the
\* visibility subscription and an audio context that was created as they
\* are, also when the creation of the audio context had failed.
C27_InitIsIdempotent ==
  [][\A ctxOk \in BOOLEAN :
       (/\ visListeners >= 1 /\ disposed = "no"
        /\ (CallInit(ctxOk) \/ CallPlay("m1", Plain, ctxOk)))
         => /\ audioPool' = audioPool
            /\ visListeners' = visListeners
            /\ audioContext = "open" => audioContext' = "open"]_vars

\* The elements held by a registered sound that is Playing.
PlayingEls == {sounds[id].audio : id \in {x \in SoundIds : sounds[x].reg /\ sounds[x].isPlaying}}

\* C28: the background transition pauses the audio of every Playing sound
\* and changes nothing else: every sound's isPlaying and gain, the current
\* music, the channel volumes, the mute flags and every other element are
\* as before.
C28_BackgroundOnlyPauses ==
  [][(~hidden /\ hidden') =>
       /\ \A a \in PlayingEls : els'[a] = [els[a] EXCEPT !.paused = TRUE]
       /\ \A a \in DOMAIN els \ PlayingEls : els'[a] = els[a]
       /\ DOMAIN els' = DOMAIN els
       /\ UNCHANGED <<sounds, currentMusic, musicVolume, sfxVolume, isMusicMuted,
                      isSfxMuted, audioPool, soundsCache, timers, tasks,
                      isInitialized, audioContext, eventListeners>>]_vars

\* C28's case: the app has just been backgrounded with m1 and s1 Playing:
\* both are still Playing, and their audio is paused.
C28_Witness ==
  /\ hidden /\ bg.on = "hidden" /\ bg.quiet /\ bg.music = "m1" /\ bg.sfx = {"s1"}
  /\ sounds["m1"].isPlaying /\ els[sounds["m1"].audio].paused
  /\ sounds["s1"].isPlaying /\ els[sounds["s1"].audio].paused
  /\ currentMusic.id = "m1"

\* The volume of the channel of id.
ChannelVolume(id) == IF sounds[id].isMusic THEN musicVolume ELSE sfxVolume

\* C29: a play(id, options) that plays gives the sound a gain node whose
\* value is the channel volume times options.volume (1 when unset) when
\* there is no fadeIn; with fadeIn > 0 the value is 0 and the one ramp
\* scheduled has that product as its target.
C29_PlayGainIsProduct ==
  [][\A id \in SoundIds, o \in MixOptions :
       (sounds[id].reg /\ ~ChannelMuted(World, id) /\ CallPlay(id, o, TRUE)) =>
         LET product == Times(ChannelVolume(id), IF o.volume = NoVal THEN 100 ELSE o.volume)
             gain == sounds'[id].gain
         IN /\ sounds'[id].isPlaying /\ gain.on
            /\ IF o.fadeIn > 0 THEN gain.value = 0 /\ gain.ramps = {product}
               ELSE gain.value = product /\ gain.ramps = {}]_vars

\* C29's case: with the sfx volume at 0.5, s1 was played with volume 0.5 and
\* a fadeIn: its gain is 0 and ramps to 0.25.
C29_Witness ==
  /\ sfxVolume = 50 /\ sounds["s1"].isPlaying /\ sounds["s1"].optVolume = 50
  /\ sounds["s1"].gain = [on |-> TRUE, value |-> 0, ramps |-> {25}]

\* C30: when the last public call was a play(id) that played (here with a
\* fadeIn) and the cleanup timer of an earlier stop(id, {fadeOut > 0}) fires
\* while the sound is Playing with its audio running, the sound is still
\* Playing afterwards, its audio running, its gain node in place, and it is
\* still the current music.
C30_ReplaySurvivesFadeOutTimer ==
  [][\A r \in BagToSet(timers) :
       (/\ r.live /\ hist = [k |-> "play", id |-> r.id]
        /\ sounds[r.id].isPlaying /\ ~els[r.audio].paused
        /\ TimerFire(r))
         => /\ sounds'[r.id].isPlaying /\ ~els'[r.audio].paused
            /\ sounds'[r.id].gain.on
            /\ currentMusic'.id = r.id]_vars

\* C31: if there is a current music, its id is registered, it is a music
\* sound, and it is Playing or Paused (not playing, with the gain node of its
\* play still in place): never a sound that was stopped or that has ended.
C31_CurrentMusicIsPlayingOrPaused ==
  currentMusic.id # NoId =>
    /\ sounds[currentMusic.id].reg /\ sounds[currentMusic.id].isMusic
    /\ sounds[currentMusic.id].isPlaying \/ sounds[currentMusic.id].gain.on

\* No registered sound that is Playing holds the element a.
HeldByNoPlaying(a) ==
  \A other \in SoundIds :
    (sounds[other].reg /\ sounds[other].audio = a) => ~sounds[other].isPlaying

\* C32: a sound whose audio is running is logically Playing.  Stated here
\* for the steps the claim names: a foreground transition or the unmuting of
\* a channel does not start the audio of a registered sound that is not
\* Playing (paused or stopped by the caller, or ended) and whose element no
\* Playing sound holds.
C32_NoStartOfNonPlaying ==
  [][(FgStep \/ (isMusicMuted /\ ~isMusicMuted') \/ (isSfxMuted /\ ~isSfxMuted')) =>
       \A id \in SoundIds :
         (/\ sounds[id].reg /\ ~sounds[id].isPlaying
          /\ els[sounds[id].audio].paused /\ HeldByNoPlaying(sounds[id].audio))
           => els'[sounds[id].audio].paused]_vars

\* A public call made with the id other.
CallOn_(other) ==
  \/ CallStop(other, NoVal) \/ CallPause(other) \/ CallResume(other)
  \/ \E o \in LoopOptions : CallPlay(other, o, TRUE)
  \/ LoadAlone(other)

\* C33: a sound that is Playing has its audio running, unless its channel is
\* muted or the app is in the background.  Stated here for the operations on
\* another id: when play(id) has just started the audio of id, a load, play,
\* stop, pause or resume of a different id leaves that audio running, with
\* the source it had.
C33_OtherIdLeavesAudioRunning ==
  [][\A id \in SoundIds, other \in SoundIds :
       (/\ other # id /\ hist = Did("play", id)
        /\ sounds[id].reg /\ sounds[id].isPlaying /\ ~els[sounds[id].audio].paused
        /\ CallOn_(other))
         => /\ ~els'[sounds[id].audio].paused
            /\ els'[sounds[id].audio].src = els[sounds[id].audio].src]_vars

\* C34: while a channel is muted, no sound of the channel has its audio
\* running.  Stated here for resume: resume(id) of a sound that was played
\* and then paused by the caller, made while its channel is muted, leaves
\* its audio paused.
C34_ResumeWhileMutedStaysSilent ==
  [][\A id \in SoundIds :
       (/\ hist = Did("pause", id)
        /\ sounds[id].reg /\ ~sounds[id].isPlaying /\ sounds[id].gain.on
        /\ ChannelMuted(World, id) /\ els[sounds[id].audio].paused
        /\ CallResume(id)) => els'[sounds[id].audio].paused]_vars

\* The events of evs that are <<name, id>>.
Emissions(evs, name, id) == Cardinality({k \in 1..Len(evs) : evs[k] = <<name, id>>})

\* C35: the step in which an id becomes registered emits exactly one load
\* event carrying that id, and no step emits a load event for an id that is
\* registered already.
C35_OneLoadEventPerRegistration ==
  [][\A id \in SoundIds :
       /\ (~sounds[id].reg /\ sounds'[id].reg) => Emissions(events', "load", id) = 1
       /\ sounds[id].reg => Emissions(events', "load", id) = 0]_vars

\* The step ends the preload entry tk.
EntryEnds(tk) ==
  /\ tk.kind = "preload" /\ tasks' = tasks (-) SetToBag({tk})
  /\ \E ok \in BOOLEAN : ProbeDone(tk, ok, TRUE) \/ FetchDone(tk, ok)

\* C36: a preload entry emits an error event for its id only if the id is
\* unregistered when the entry finishes: an entry that finishes with its id
\* registered (an alternate loaded after the primary URL failed) has emitted
\* no error event for it, neither in its last step nor before.
C36_NoErrorWhenAnAlternateLoads ==
  [][\A tk \in BagToSet(tasks) :
       (EntryEnds(tk) /\ sounds'[tk.id].reg)
         => /\ hist # [k |-> "erred", id |-> tk.id]
            /\ Emissions(events', "error", tk.id) = 0]_vars

\* C37: a preload entry that ends with its id unregistered has emitted
\* exactly one error event for the id: the one of its last step, and none
\* before, whether the probe failed for every URL or a probe passed and the
\* fetch that followed failed.
C37_OneErrorPerFailedEntry ==
  [][\A tk \in BagToSet(tasks) :
       (EntryEnds(tk) /\ ~sounds'[tk.id].reg)
         => /\ Emissions(events', "error", tk.id) = 1
            /\ hist # [k |-> "erred", id |-> tk.id]]_vars

\* C38: when a handler calls off() during the dispatch of an event, every
\* handler that was registered when the dispatch began and that has not been
\* removed is invoked exactly once in that dispatch.  Each handler is
\* registered at most once here.
C38_OffDuringDispatchSkipsNone ==
  [][(Len(events') = 1 /\ events'[1][1] = "load") =>
       \A cb \in AllHandlers :
         (IndexOf(eventListeners["load"], cb) # 0 /\ IndexOf(eventListeners'["load"], cb) # 0)
           => Count(invoked'[1], cb) = 1]_vars

\* The registrations of log ons made after the last dispose() noted in it.
RECURSIVE SinceDispose(_)
SinceDispose(ons) ==
  IF \A i \in 1..Len(ons) : ons[i] # Swept THEN ons
  ELSE SinceDispose(Tail(ons))
ChannelSettingsKept ==
  /\ musicVolume' = musicVolume /\ sfxVolume' = sfxVolume
  /\ isMusicMuted' = isMusicMuted /\ isSfxMuted' = isSfxMuted

\* C39: dispose() and a later init() leave musicVolume, sfxVolume and both
\* mute flags as they were, dispose() leaves no handler subscribed, and an
\* event dispatched afterwards invokes no handler whose registrations were
\* all made before the last dispose().
C39_DisposeDropsHandlersKeepsSettings ==
  [][/\ CallDisposeLogged =>
          /\ ChannelSettingsKept
          /\ \A e \in EventNames : eventListeners'[e] = <<>>
     /\ CallInit(TRUE) => ChannelSettingsKept
     /\ \A k \in 1..Len(invoked') :
          \A cb \in Handlers :
            Count(invoked'[k], cb) > 0
              => Count(SinceDispose(regLog[events'[k][1]].ons), cb) > 0]_vars

\* C39's case: h1 was registered for load and never removed by off(), the
\* engine was disposed and initialized again, the music volume had been
\* changed and the music muted before, and the load event of m1 has just
\* been dispatched to nobody.
C39_Witness ==
  /\ regLog["load"].ons = <<"h1", Swept>> /\ regLog["load"].offs["h1"] = 0
  /\ isInitialized
  /\ musicVolume # sfxVolume /\ isMusicMuted /\ ~isSfxMuted
  /\ events = << <<"load", "m1">> >> /\ invoked = << <<>> >>

=============================================================================
